---- MODULE Spec2Model ----
(***************************************************************************)
(* ngenix-exporter: poll loops that fetch JSON reports from the NGENIX API *)
(* on a ticker and fold them into Prometheus metric vectors.               *)
(*                                                                         *)
(* Loops modelled (every variant found in the sources):                    *)
(*   fetchReport                        unnamed/part_000:109               *)
(*   fetchRealtimeRequestsByCode        httpStatusResponse.go:51           *)
(*   fetchRealtimeRequestsByPath        main.go:366                        *)
(*   fetchRealtimeRequestsByPath (old)  main.go:143                        *)
(*   fetchRealtimeRequestsByCode (old)  main.go:171                        *)
(* Each loop is a goroutine; its position is pc[l]:                        *)
(*   "wait"    blocked in `for range ticker.C`                             *)
(*   "http"    inside client.Do, the request is on the wire                *)
(*   "process" iterating over the decoded records                          *)
(***************************************************************************)
EXTENDS Integers, Sequences, FiniteSets, TLC

\* ---------------------------------------------------------------- bounds
\* longest categories / values list an upstream body carries
MaxLen == 2
\* most data blocks a report body carries
MaxData == 2
\* longest values list of one data block
MaxVals == 1
\* most observations the summary vector takes before the model stops feeding it
MaxObs == 2

\* ------------------------------------------------------- program constants
StatusOK == 200
MantissaBits == 53

\* ------------------------------------------------------------------ loops
Report == "fetchReport"
ByCode == "fetchRealtimeRequestsByCode"
ByPath == "fetchRealtimeRequestsByPath"
ByPathOld == "fetchRealtimeRequestsByPath.v1"
ByCodeOld == "fetchRealtimeRequestsByCode.v1"

Loops == {Report, ByCode, ByPath, ByPathOld, ByCodeOld}
GaugeLoops == Loops \ {Report}
CodeLoops == {ByCode, ByCodeOld}
PathLoops == {ByPath, ByPathOld}

VARIABLES
    env,                    \* process environment: variable name -> value ("" = unset)
    started,                \* the loops main() launched with `go`
    tickC,                  \* ticker.C of each loop: a channel of capacity 1
    pc,                     \* position of each loop's goroutine
    err,                    \* error returned by the loop's latest completed fetch
    reply,                  \* the HTTP response that fetch received
    decoded,                \* the loop-local response struct of the current iteration
    idx,                    \* index of the range loop over the decoded records
    mu,                     \* sync.Mutex of processReport: TRUE = held
    crashed,                \* the process died of an unrecovered panic
    trafficCounter,         \* CounterVec: label values -> value
    realtimeRequestsByCode, \* GaugeVec:   label values -> value
    realtimeRequestsByPath, \* GaugeVec:   label values -> value
    totalRealtimeRequests,  \* SummaryVec: label values -> [count, sum]
    same,                   \* the upstream answers this tick exactly as it answered the tick before
    snap                    \* <<what the loop had written when such a tick began>>

vars == <<env, started, tickC, pc, err, reply, decoded, idx, mu, crashed,
          trafficCounter, realtimeRequestsByCode, realtimeRequestsByPath,
          totalRealtimeRequests, same, snap>>

Sink == <<trafficCounter, realtimeRequestsByCode, realtimeRequestsByPath,
          totalRealtimeRequests>>

\* ------------------------------------------------------------ small helpers
SeqsUpTo(S, n) == UNION {[1..k -> S] : k \in 0..n}

Put(m, k, v) == [x \in DOMAIN m \cup {k} |-> IF x = k THEN v ELSE m[x]]

Abs(n) == IF n < 0 THEN -n ELSE n

RECURSIVE BitLen(_)
BitLen(n) == IF n = 0 THEN 0 ELSE 1 + BitLen(n \div 2)

RECURSIVE Pow2(_)
Pow2(k) == IF k = 0 THEN 1 ELSE 2 * Pow2(k - 1)

\* float64(n) for an int n: exact up to 53 significant bits, then round to
\* nearest, ties to even.
Float64(n) ==
    LET a == Abs(n)
        sh == BitLen(a) - MantissaBits
    IN  IF sh <= 0 THEN n
        ELSE LET unit == Pow2(sh)
                 q == a \div unit
                 r == a % unit
                 half == unit \div 2
                 up == r > half \/ (r = half /\ q % 2 = 1)
                 m == (IF up THEN q + 1 ELSE q) * unit
             IN  IF n < 0 THEN -m ELSE m

Digit(d) ==
    CASE d = 0 -> "0" [] d = 1 -> "1" [] d = 2 -> "2" [] d = 3 -> "3"
      [] d = 4 -> "4" [] d = 5 -> "5" [] d = 6 -> "6" [] d = 7 -> "7"
      [] d = 8 -> "8" [] OTHER -> "9"

\* strconv.Itoa
RECURSIVE Itoa(_)
Itoa(n) ==
    IF n < 0 THEN "-" \o Itoa(-n)
    ELSE IF n < 10 THEN Digit(n)
    ELSE Itoa(n \div 10) \o Digit(n % 10)

\* ------------------------------------------------------------ environment
EnvNames == {"NGENIX_USERNAME", "NGENIX_PASSWORD", "NGENIX_CONFIG_ID"}

\* the process environments considered: each variable is unset or set
Environments ==
    { e \in [EnvNames -> {"", "ngenix", "91051"}] :
        /\ e["NGENIX_USERNAME"] \in {"", "ngenix"}
        /\ e["NGENIX_PASSWORD"] \in {"", "ngenix"}
        /\ e["NGENIX_CONFIG_ID"] \in {"", "91051"} }

\* os.Getenv
Getenv(e, name) == e[name]

\* time.Now().Format("2006-01-02"): the clock is never the zero time
Today == "2025-01-02"

NoError == "nil"
NotFetched == "none"

\* ------------------------------------------------------------------- URLs
buildReportURL(configID, date) ==
    "https://api.ngenix.net/reports/v1/timeline/configs?configId=" \o configID
        \o "&start=" \o date \o "T09:00:00"
        \o "&end=" \o date \o "T09:59:59"
        \o "&metrics=realtimeRequests&interval=30&groupBy=httpStatus"

\* url.Values.Encode sorts the keys and escapes ':' and ','
getHTTPStatusURL(configId, date) ==
    IF configId = "" THEN ""
    ELSE "https://api.ngenix.net/reports/v1/analytical/httpstatuses?"
            \o "configId=" \o configId
            \o "&end=" \o date \o "T23%3A59%3A59"
            \o "&metrics=realtimeRequests"
            \o "&start=" \o date \o "T00%3A00%3A00"

getTop100URL(configId, date) ==
    IF configId = "" THEN ""
    ELSE "https://api.ngenix.net/reports/v1/analytical/top100?"
            \o "configId=" \o configId
            \o "&date=" \o date
            \o "&metrics=realtimeRequests"

getTop100URLOld ==
    "https://api.ngenix.net/reports/v1/analytical/top100?configId=91051&date=2025-01-02&metrics=realtimeRequests"

getHTTPStatusURLOld ==
    "https://api.ngenix.net/reports/v1/analytical/httpstatuses?configId=91051&start=2025-01-02T00:00:00&end=2025-01-02T23:59:59&metrics=realtimeRequests"

\* ------------------------------------------- the fetch functions, up to client.Do
\* Each yields the error it returns before any request exists, or the URL of
\* the request it hands to client.Do.
Refuse(e) == [err |-> e, url |-> ""]
Request(u) == [err |-> NoError, url |-> u]

\* fetchData without its config id check
fetchDataPrepareNoConfigCheck(e) ==
    IF Getenv(e, "NGENIX_USERNAME") = "" \/ Getenv(e, "NGENIX_PASSWORD") = ""
    THEN Refuse("missing basic auth credentials")
    ELSE Request(buildReportURL(Getenv(e, "NGENIX_CONFIG_ID"), Today))

fetchDataPrepare(e) ==
    IF Getenv(e, "NGENIX_USERNAME") = "" \/ Getenv(e, "NGENIX_PASSWORD") = ""
    THEN Refuse("missing basic auth credentials")
    ELSE IF Getenv(e, "NGENIX_CONFIG_ID") = ""
    THEN Refuse("missing config id")
    ELSE Request(buildReportURL(Getenv(e, "NGENIX_CONFIG_ID"), Today))

fetchDataHTTPStatusPrepare(e) ==
    IF Getenv(e, "NGENIX_USERNAME") = "" \/ Getenv(e, "NGENIX_PASSWORD") = ""
    THEN Refuse("missing basic auth credentials")
    ELSE Request(getHTTPStatusURL(Getenv(e, "NGENIX_CONFIG_ID"), Today))

fetchDataTOP100Prepare(e) ==
    IF Getenv(e, "NGENIX_USERNAME") = "" \/ Getenv(e, "NGENIX_PASSWORD") = ""
    THEN Refuse("missing basic auth credentials")
    ELSE Request(getTop100URL(Getenv(e, "NGENIX_CONFIG_ID"), Today))

fetchDataTOP100OldPrepare(e) ==
    IF Getenv(e, "NGENIX_USERNAME") = "" \/ Getenv(e, "NGENIX_PASSWORD") = ""
    THEN Refuse("missing basic auth credentials")
    ELSE Request(getTop100URLOld)

fetchDataHTTPSTATUSOldPrepare(e) ==
    IF Getenv(e, "NGENIX_USERNAME") = "" \/ Getenv(e, "NGENIX_PASSWORD") = ""
    THEN Refuse("missing basic auth credentials")
    ELSE Request(getHTTPStatusURLOld)

Prepare(l, e) ==
    CASE l = Report    -> fetchDataPrepare(e)
      [] l = ByCode    -> fetchDataHTTPStatusPrepare(e)
      [] l = ByPath    -> fetchDataTOP100Prepare(e)
      [] l = ByPathOld -> fetchDataTOP100OldPrepare(e)
      [] l = ByCodeOld -> fetchDataHTTPSTATUSOldPrepare(e)

\* client.Do puts a request on the wire only when its URL has the scheme http
\* or https; http.NewRequestWithContext accepts the empty URL, and Do then
\* fails with "unsupported protocol scheme" before any connection is made.
ClientDoSends(url) ==
    Len(url) >= Len("https://") /\ SubSeq(url, 1, Len("https://")) = "https://"

\* ---------------------------------------------------------- upstream bodies
\* label names and metric values the upstream bodies are built from
Names(l) ==
    CASE l = ByPath    -> {"", "/index", "/a"}
      [] l = ByCode    -> {"", "200"}
      [] l = ByPathOld -> {"", "/index"}
      [] l = ByCodeOld -> {"", "200"}

Values(l) ==
    CASE l = ByPath    -> {0, 42}
      [] l = ByCode    -> {0, 5, 42}
      [] l = ByPathOld -> {0, 42}
      [] l = ByCodeOld -> {0, 5}

\* A JSON body of the analytical endpoints (top100, httpstatuses).
\*   valid       it parses as JSON of the expected types
\*   modelName   the top-level "modelName" member, when present
\*   categories  the "categories" member: absent, null or an array
Category(n, v) == [name |-> n, realtimeRequests |-> v]

Categories(l) == {Category(n, v) : n \in Names(l), v \in Values(l)}

Member(k, x) == [kind |-> k, items |-> x]

AnalyticalBody(mn, cats) == [valid |-> TRUE, modelName |-> mn, categories |-> cats]

MalformedBody ==
    [valid |-> FALSE, modelName |-> Member("absent", ""), categories |-> Member("absent", <<>>)]

AnalyticalBodies(l) ==
    {MalformedBody} \cup
    { AnalyticalBody(mn, cats) :
        mn \in {Member("absent", ""), Member("string", ""), Member("string", "analytical")},
        cats \in {Member("absent", <<>>), Member("null", <<>>)}
                 \cup {Member("array", c) : c \in SeqsUpTo(Categories(l), MaxLen)} }

\* A JSON body of the timeline endpoint: "data" is absent, null or an array of
\* blocks, each with an array "values" of (groupedBy.httpStatus, metrics.realtimeTraffic).
Value(s, t) == [HTTPStatus |-> s, RealtimeTraffic |-> t]

Block(vs) == [Values |-> vs]

ReportBody(d) == [valid |-> TRUE, data |-> d]

MalformedReport == [valid |-> FALSE, data |-> Member("absent", <<>>)]

ReportValues == {Value(200, 5), Value(404, 0), Value(200, -1)}

ReportBodies ==
    {MalformedReport} \cup
    { ReportBody(d) :
        d \in {Member("absent", <<>>), Member("null", <<>>)}
              \cup { Member("array", b) :
                       b \in SeqsUpTo({Block(vs) : vs \in SeqsUpTo(ReportValues, MaxVals)},
                                      MaxData) } }

Bodies(l) == IF l = Report THEN ReportBodies ELSE AnalyticalBodies(l)

Malformed(l) == IF l = Report THEN MalformedReport ELSE MalformedBody

\* What client.Do hands back: no response at all (transport error), or a
\* response with a status code and a body.
NoResponse(l) == [received |-> FALSE, status |-> 0, body |-> Malformed(l)]

Response(st, b) == [received |-> TRUE, status |-> st, body |-> b]

\* a body that would be mapped if the status check let it through
SampleBody(l) ==
    IF l = Report
    THEN ReportBody(Member("array", <<Block(<<Value(200, 5)>>)>>))
    ELSE AnalyticalBody(Member("string", "analytical"),
                        Member("array", <<Category(CHOOSE n \in Names(l) : n # "", 42)>>))

Replies(l) ==
    {NoResponse(l)}
    \cup {Response(StatusOK, b) : b \in Bodies(l)}
    \cup {Response(500, b) : b \in {Malformed(l), SampleBody(l)}}

\* the replies drawn when several loops run side by side
FewReplies(l) ==
    {NoResponse(l), Response(500, SampleBody(l)), Response(StatusOK, Malformed(l)),
     Response(StatusOK, SampleBody(l))}
    \cup (IF l = Report
          THEN {Response(StatusOK, ReportBody(Member("array", <<>>))),
                Response(StatusOK, ReportBody(Member("null", <<>>)))}
          ELSE {Response(StatusOK, AnalyticalBody(Member("absent", ""), Member("array", <<>>))),
                Response(StatusOK, AnalyticalBody(Member("string", "analytical"),
                      Member("array", <<Category("", 5), Category(CHOOSE n \in Names(l) : n # "", 5)>>)))})

\* ------------------------------------------------------------ json decoding
\* json.Decoder.Decode into a zero-valued struct: a member that is absent or
\* null leaves the field at its zero value ("" for a string, nil for a slice).
Slice(isNil, xs) == [nil |-> isNil, items |-> xs]

ZeroAnalytical == [ModelName |-> "", Categories |-> Slice(TRUE, <<>>)]

ZeroReport == [Data |-> Slice(TRUE, <<>>)]

Zero(l) == IF l = Report THEN ZeroReport ELSE ZeroAnalytical

DecodeAnalytical(b) ==
    [ModelName  |-> IF b.modelName.kind = "string" THEN b.modelName.items ELSE "",
     Categories |-> IF b.categories.kind = "array"
                    THEN Slice(FALSE, b.categories.items)
                    ELSE Slice(TRUE, <<>>)]

DecodeReport(b) ==
    [Data |-> IF b.data.kind = "array" THEN Slice(FALSE, b.data.items) ELSE Slice(TRUE, <<>>)]

Decode(l, b) == IF l = Report THEN DecodeReport(b) ELSE DecodeAnalytical(b)

\* ------------------------------------- the fetch functions, after client.Do
\* transport error, status check, decode: the error returned and the struct
\* the caller's pointer then holds.
Failed(l, e) == [err |-> e, decoded |-> Zero(l)]

\* the fetch function without its status check
ReadResponseNoStatusCheck(l, r) ==
    IF ~r.received THEN Failed(l, "error executing request")
    ELSE IF ~r.body.valid THEN Failed(l, "error decoding response")
    ELSE [err |-> NoError, decoded |-> Decode(l, r.body)]

ReadResponse(l, r) ==
    IF ~r.received THEN Failed(l, "error executing request")
    ELSE IF r.status # StatusOK THEN Failed(l, "unexpected status code")
    ELSE IF ~r.body.valid THEN Failed(l, "error decoding response")
    ELSE [err |-> NoError, decoded |-> Decode(l, r.body)]

\* ------------------------------------------------------- the metric vectors
\* A vector maps a tuple of label values to the value of its child metric.
\* WithLabelValues panics unless it is given one value per declared label;
\* otherwise it yields the child, creating it at zero when it is new.
trafficCounterLabels == <<"httpStatus", "realtimeTraffic">>
realtimeRequestsByCodeLabels == <<"code">>
realtimeRequestsByPathLabels == <<"path">>
totalRealtimeRequestsLabels == <<"path">>

Panic(m) == [panic |-> TRUE, vec |-> m]
Done(m) == [panic |-> FALSE, vec |-> m]

WithLabelValues(labels, m, lvs, zero) ==
    IF Len(lvs) # Len(labels) THEN Panic(m)
    ELSE IF lvs \in DOMAIN m THEN Done(m)
    ELSE Done(Put(m, lvs, zero))

\* Gauge.Add in the place of Gauge.Set
GaugeAdd(m, lvs, v) == Put(m, lvs, m[lvs] + v)

\* a Set that rebuilds the vector from the record at hand
GaugeSetAlone(m, lvs, v) == [k \in {lvs} |-> v]

\* Gauge.Set
GaugeSet(m, lvs, v) == Put(m, lvs, v)

\* Counter.Add panics on a negative argument
CounterAdd(m, lvs, v) ==
    IF v < 0 THEN Panic(m) ELSE Done(Put(m, lvs, m[lvs] + v))

\* Summary.Observe
SummaryObserve(m, lvs, v) ==
    Put(m, lvs, [count |-> m[lvs].count + 1, sum |-> m[lvs].sum + v])

ZeroSummary == [count |-> 0, sum |-> 0]

\* ------------------------------------------------ the body of each range loop
\* the label values processReport passes: strconv.Itoa(HTTPStatus), alone
processReportLabelValues(value) == <<Itoa(value.HTTPStatus)>>

\* the label values the gauge loops pass: category.Name, alone
categoryLabelValues(category) == <<category.name>>

\* processReport, one iteration of the inner loop
processReportValue(counter, value) ==
    LET lvs == processReportLabelValues(value)
        child == WithLabelValues(trafficCounterLabels, counter, lvs, 0)
    IN  IF child.panic THEN Panic(counter)
        ELSE CounterAdd(child.vec, lvs, Float64(value.RealtimeTraffic))

\* the iteration leaving a child that exists as it is
byCodeCategoryFirstWins(gauge, category) ==
    IF category.name = "" \/ category.realtimeRequests = 0 THEN Done(gauge)
    ELSE IF <<category.name>> \in DOMAIN gauge THEN Done(gauge)
    ELSE Done(Put(gauge, <<category.name>>, Float64(category.realtimeRequests)))

\* fetchRealtimeRequestsByCode (httpStatusResponse.go), one iteration
byCodeCategory(gauge, category) ==
    IF category.name = "" \/ category.realtimeRequests = 0 THEN Done(gauge)
    ELSE LET lvs == categoryLabelValues(category)
             child == WithLabelValues(realtimeRequestsByCodeLabels, gauge, lvs, 0)
         IN  IF child.panic THEN Panic(gauge)
             ELSE Done(GaugeSet(child.vec, lvs, Float64(category.realtimeRequests)))

\* the iteration adding to the child
byPathCategoryAdds(gauge, category) ==
    IF category.name = "" \/ category.realtimeRequests = 0 THEN Done(gauge)
    ELSE LET lvs == categoryLabelValues(category)
             child == WithLabelValues(realtimeRequestsByPathLabels, gauge, lvs, 0)
         IN  Done(GaugeAdd(child.vec, lvs, Float64(category.realtimeRequests)))

\* fetchRealtimeRequestsByPath (main.go:366), one iteration
byPathCategory(gauge, category) ==
    IF category.name = "" \/ category.realtimeRequests = 0 THEN Done(gauge)
    ELSE LET lvs == categoryLabelValues(category)
             child == WithLabelValues(realtimeRequestsByPathLabels, gauge, lvs, 0)
         IN  IF child.panic THEN Panic(gauge)
             ELSE Done(GaugeSet(child.vec, lvs, Float64(category.realtimeRequests)))

\* fetchRealtimeRequestsByCode (main.go:171), one iteration
byCodeOldCategory(gauge, category) ==
    IF category.name = "" THEN Done(gauge)
    ELSE IF category.realtimeRequests = 0 THEN Done(gauge)
    ELSE LET lvs == categoryLabelValues(category)
             child == WithLabelValues(realtimeRequestsByCodeLabels, gauge, lvs, 0)
         IN  IF child.panic THEN Panic(gauge)
             ELSE Done(GaugeSet(child.vec, lvs, Float64(category.realtimeRequests)))

\* fetchRealtimeRequestsByPath (main.go:143), one iteration: the gauge ...
byPathOldCategory(gauge, category) ==
    IF category.name = "" \/ category.realtimeRequests = 0 THEN Done(gauge)
    ELSE LET lvs == categoryLabelValues(category)
             child == WithLabelValues(realtimeRequestsByPathLabels, gauge, lvs, 0)
         IN  IF child.panic THEN Panic(gauge)
             ELSE Done(GaugeSet(child.vec, lvs, Float64(category.realtimeRequests)))

\* ... and the summary it observes next
byPathOldObserve(summary, category) ==
    IF category.name = "" \/ category.realtimeRequests = 0 THEN Done(summary)
    ELSE LET lvs == categoryLabelValues(category)
             child == WithLabelValues(totalRealtimeRequestsLabels, summary, lvs, ZeroSummary)
         IN  IF child.panic THEN Panic(summary)
             ELSE Done(SummaryObserve(child.vec, lvs, Float64(category.realtimeRequests)))

MapCategory(l, gauge, category) ==
    CASE l = ByCode    -> byCodeCategory(gauge, category)
      [] l = ByPath    -> byPathCategory(gauge, category)
      [] l = ByCodeOld -> byCodeOldCategory(gauge, category)
      [] l = ByPathOld -> byPathOldCategory(gauge, category)

\* the struct is unusable: "Incomplete data received" / "report.Data is nil"
Incomplete(l, d) ==
    IF l = Report THEN d.Data.nil
    ELSE d.ModelName = "" \/ d.Categories.nil

\* the records in the order the (nested) range loops visit them
RECURSIVE Flatten(_)
Flatten(blocks) ==
    IF blocks = <<>> THEN <<>>
    ELSE Head(blocks).Values \o Flatten(Tail(blocks))

RecordsOf(l, d) == IF l = Report THEN Flatten(d.Data.items) ELSE d.Categories.items

Records(l) == RecordsOf(l, decoded[l])

\* the vector a gauge loop sets
Gauge(l) == IF l \in CodeLoops THEN realtimeRequestsByCode ELSE realtimeRequestsByPath

\* everything loop l writes
Written(l) ==
    CASE l = Report    -> <<trafficCounter>>
      [] l = ByPathOld -> <<realtimeRequestsByPath, totalRealtimeRequests>>
      [] l = ByPath    -> <<realtimeRequestsByPath>>
      [] OTHER         -> <<realtimeRequestsByCode>>

RECURSIVE Observations(_, _)
Observations(m, keys) ==
    IF keys = {} THEN 0
    ELSE LET k == CHOOSE x \in keys : TRUE
         IN  m[k].count + Observations(m, keys \ {k})

\* ------------------------------------------------------------------ Init
\* main.go:15 launches fetchReport alone; main.go:125 launches the two old
\* gauge loops together.
MainLaunches == {{Report}, {ByPathOld, ByCodeOld}}

\* each loop on its own
SingleLaunches == {{l} : l \in Loops}

InitWith(launches) ==
    /\ env \in Environments
    /\ started \in launches
    /\ tickC = [l \in started |-> FALSE]
    /\ pc = [l \in started |-> "wait"]
    /\ err = [l \in started |-> NotFetched]
    /\ reply = [l \in started |-> NoResponse(l)]
    /\ decoded = [l \in started |-> Zero(l)]
    /\ idx = [l \in started |-> 1]
    /\ mu = FALSE
    /\ crashed = FALSE
    /\ trafficCounter = <<>>
    /\ realtimeRequestsByCode = <<>>
    /\ realtimeRequestsByPath = <<>>
    /\ totalRealtimeRequests = <<>>
    /\ same = [l \in started |-> FALSE]
    /\ snap = [l \in started |-> <<>>]

Init == InitWith(SingleLaunches)

InitMain == InitWith(MainLaunches)

\* --------------------------------------------------------------- actions
\* the runtime timer of time.NewTicker: a tick the loop has not taken yet is
\* kept (capacity 1), later ones are dropped
TickerFire(l) ==
    /\ l \in started /\ ~crashed
    /\ tickC' = [tickC EXCEPT ![l] = TRUE]
    /\ UNCHANGED <<env, started, pc, err, reply, decoded, idx, mu, crashed,
                   trafficCounter, realtimeRequestsByCode, realtimeRequestsByPath,
                   totalRealtimeRequests, same, snap>>

\* a tick body started for every tick, whatever the previous one is doing
AtLoopHeadOrBusy(l) == pc[l] \in {"wait", "http", "process"}

\* the goroutine receives from ticker.C only at the head of its for loop
AtLoopHead(l) == pc[l] = "wait"

\* `for range ticker.C` takes a tick, declares the struct and calls the fetch
\* function, which either returns an error at once or blocks in client.Do
Tick(l) ==
    /\ l \in started /\ ~crashed
    /\ AtLoopHead(l) /\ tickC[l]
    /\ tickC' = [tickC EXCEPT ![l] = FALSE]
    /\ decoded' = [decoded EXCEPT ![l] = Zero(l)]
    /\ LET rq == Prepare(l, env)
       IN  IF rq.err = NoError /\ ClientDoSends(rq.url)
           THEN /\ pc' = [pc EXCEPT ![l] = "http"]
                /\ \E again \in {FALSE, err[l] = NoError} :
                      /\ same' = [same EXCEPT ![l] = again]
                      /\ snap' = [snap EXCEPT ![l] = IF again THEN <<Written(l)>> ELSE <<>>]
                      /\ reply' = [reply EXCEPT ![l] = IF again THEN @ ELSE NoResponse(l)]
                /\ UNCHANGED err
           ELSE /\ err' = [err EXCEPT ![l] =
                              IF rq.err # NoError THEN rq.err ELSE "error executing request"]
                /\ reply' = [reply EXCEPT ![l] = NoResponse(l)]
                /\ same' = [same EXCEPT ![l] = FALSE]
                /\ snap' = [snap EXCEPT ![l] = <<>>]
                /\ pc' = [pc EXCEPT ![l] = "wait"]
    /\ UNCHANGED <<env, started, idx, mu, crashed, trafficCounter,
                   realtimeRequestsByCode, realtimeRequestsByPath, totalRealtimeRequests>>

\* client.Do returns r; the fetch function checks and decodes it; the loop
\* logs and continues on an error or an incomplete struct, else starts mapping
\* (processReport takes mu first)
Reply(l, r) ==
    /\ l \in started /\ ~crashed
    /\ pc[l] = "http"
    /\ same[l] => r = reply[l]
    /\ LET res == ReadResponse(l, r)
           go == res.err = NoError /\ ~Incomplete(l, res.decoded)
       IN  /\ err' = [err EXCEPT ![l] = res.err]
           /\ reply' = [reply EXCEPT ![l] = r]
           /\ decoded' = [decoded EXCEPT ![l] = res.decoded]
           /\ pc' = [pc EXCEPT ![l] = IF go THEN "process" ELSE "wait"]
           /\ idx' = [idx EXCEPT ![l] = 1]
           /\ mu' = IF go /\ l = Report THEN TRUE ELSE mu
    /\ UNCHANGED <<env, started, tickC, crashed, trafficCounter, same, snap,
                   realtimeRequestsByCode, realtimeRequestsByPath, totalRealtimeRequests>>

\* the upstream answers the request that is out: anything, or what it answered
\* the tick before when that is what this tick is about
Answer(l) ==
    /\ l \in started /\ pc[l] = "http"
    /\ \E r \in (IF same[l] THEN {reply[l]} ELSE Replies(l)) : Reply(l, r)

AnswerFew(l) ==
    /\ l \in started /\ pc[l] = "http"
    /\ \E r \in (IF same[l] THEN {reply[l]} ELSE FewReplies(l)) : Reply(l, r)

\* one iteration of the range loop over the decoded records. A panic unwinds
\* the goroutine (the deferred mu.Unlock runs) and ends the process.
MapReport ==
    LET out == processReportValue(trafficCounter, Records(Report)[idx[Report]])
    IN  IF out.panic
        THEN /\ crashed' = TRUE
             /\ mu' = FALSE
             /\ UNCHANGED <<idx, trafficCounter>>
        ELSE /\ trafficCounter' = out.vec
             /\ idx' = [idx EXCEPT ![Report] = @ + 1]
             /\ UNCHANGED <<crashed, mu>>

MapGauge(l) ==
    LET category == Records(l)[idx[l]]
        out == MapCategory(l, Gauge(l), category)
        obs == IF l = ByPathOld /\ ~out.panic
               THEN byPathOldObserve(totalRealtimeRequests, category)
               ELSE Done(totalRealtimeRequests)
    IN  /\ Observations(obs.vec, DOMAIN obs.vec) <= MaxObs
        /\ IF out.panic \/ obs.panic
           THEN /\ crashed' = TRUE
                /\ UNCHANGED idx
           ELSE /\ idx' = [idx EXCEPT ![l] = @ + 1]
                /\ UNCHANGED crashed
        /\ realtimeRequestsByCode' = IF l \in CodeLoops THEN out.vec ELSE realtimeRequestsByCode
        /\ realtimeRequestsByPath' = IF l \in PathLoops THEN out.vec ELSE realtimeRequestsByPath
        /\ totalRealtimeRequests' = obs.vec
        /\ UNCHANGED <<mu, trafficCounter>>

Map(l) ==
    /\ l \in started /\ ~crashed
    /\ pc[l] = "process"
    /\ idx[l] <= Len(Records(l))
    /\ IF l = Report
       THEN MapReport /\ UNCHANGED <<realtimeRequestsByCode, realtimeRequestsByPath, totalRealtimeRequests>>
       ELSE MapGauge(l)
    /\ UNCHANGED <<env, started, tickC, pc, err, reply, decoded, same, snap>>

\* the range loop is exhausted: processReport returns (unlocking mu) and the
\* goroutine is back at `for range ticker.C`
LoopEnd(l) ==
    /\ l \in started /\ ~crashed
    /\ pc[l] = "process"
    /\ idx[l] > Len(Records(l))
    /\ pc' = [pc EXCEPT ![l] = "wait"]
    /\ mu' = IF l = Report THEN FALSE ELSE mu
    /\ UNCHANGED <<env, started, tickC, err, reply, decoded, idx, crashed,
                   trafficCounter, realtimeRequestsByCode, realtimeRequestsByPath,
                   totalRealtimeRequests, same, snap>>

Next ==
    \E l \in Loops :
        \/ TickerFire(l)
        \/ Tick(l)
        \/ Answer(l)
        \/ Map(l)
        \/ LoopEnd(l)

Spec == Init /\ [][Next]_vars

\* the programs as main() launches them, with few upstream replies
NextMain ==
    \E l \in Loops :
        \/ TickerFire(l)
        \/ Tick(l)
        \/ AnswerFew(l)
        \/ Map(l)
        \/ LoopEnd(l)

SpecMain == InitMain /\ [][NextMain]_vars

\* ======================================================================
\* Properties
\* ======================================================================

\* a step taken by loop l's goroutine (the ticker is not the goroutine)
StepOf(l) == pc'[l] # pc[l] \/ idx'[l] # idx[l] \/ (l = Report /\ crashed' # crashed)

\* loop l is about to run one iteration of its range loop
AtRecord(l) == pc[l] = "process" /\ idx[l] <= Len(Records(l))

\* loop l's latest tick fetched and decoded a response and has ended
TickSucceeded(l) == pc[l] = "wait" /\ err[l] = NoError

RECURSIVE SumOf(_, _)
SumOf(m, keys) ==
    IF keys = {} THEN 0
    ELSE LET k == CHOOSE x \in keys : TRUE
         IN  m[k] + SumOf(m, keys \ {k})

\* what the counter vector reads for one httpStatus label value
CounterFor(counter, status) == SumOf(counter, {k \in DOMAIN counter : k[1] = status})

\* ---------------------------------------------------------------------
\* C1: counter accumulation. Every value processReport folds in is added to
\* the trafficCounter entry of its status, so that two ticks reporting 5 for
\* status 200 read 10, and n ticks reporting v read n*v.
C1_CounterAccumulates ==
    [][ (Report \in started /\ AtRecord(Report) /\ StepOf(Report) /\ Records(Report)[idx[Report]].RealtimeTraffic >= 0)
        => LET value == Records(Report)[idx[Report]]
               status == Itoa(value.HTTPStatus)
           IN  CounterFor(trafficCounter', status)
                 = CounterFor(trafficCounter, status) + value.RealtimeTraffic ]_vars

\* ---------------------------------------------------------------------
\* the body {"categories":[{"name":"/index","metrics":{"realtimeRequests":42}}]}
ScenarioCategories == Member("array", <<Category("/index", 42)>>)

ScenarioBody == AnalyticalBody(Member("absent", ""), ScenarioCategories)

\* the same body with a "modelName" member
ScenarioBodyNamed == AnalyticalBody(Member("string", "analytical"), ScenarioCategories)

IndexReads42 ==
    /\ <<"/index">> \in DOMAIN realtimeRequestsByPath
    /\ realtimeRequestsByPath[<<"/index">>] = 42

\* C2 as claimed: after a tick of fetchRealtimeRequestsByPath that received
\* HTTP 200 with the scenario body and nothing else, requests_by_path has
\* path="/index" at 42.
C2_BareBodyReads42 ==
    \A l \in PathLoops \cap started :
        (TickSucceeded(l) /\ reply[l] = Response(StatusOK, ScenarioBody)) => IndexReads42

\* C2 amended: after a tick of fetchRealtimeRequestsByPath that received HTTP
\* 200 with the scenario body carrying a non-empty "modelName" as well,
\* requests_by_path has path="/index" at 42.
C2_NamedBodyReads42 ==
    \A l \in PathLoops \cap started :
        (TickSucceeded(l) /\ reply[l] = Response(StatusOK, ScenarioBodyNamed)) => IndexReads42

C2_Witness ==
    /\ ByPath \in started
    /\ TickSucceeded(ByPath)
    /\ reply[ByPath] = Response(StatusOK, ScenarioBodyNamed)
    /\ IndexReads42

\* ---------------------------------------------------------------------
\* the label and the value of the record loop l is about to map
LabelOf(l, rec) == IF l = Report THEN Itoa(rec.HTTPStatus) ELSE rec.name

ValueOf(l, rec) == IF l = Report THEN rec.RealtimeTraffic ELSE rec.realtimeRequests

Skippable(l, rec) == LabelOf(l, rec) = "" \/ ValueOf(l, rec) = 0

\* C3: in every poll loop a record with an empty label or a zero value is a
\* no-op: mapping it creates no entry, changes no entry, and the loop goes on.
C3_SkippedRecordIsNoOp ==
    [][ \A l \in started :
          (AtRecord(l) /\ StepOf(l) /\ Skippable(l, Records(l)[idx[l]]))
          => (Sink' = Sink /\ crashed' = crashed) ]_vars

\* ---------------------------------------------------------------------
\* the reply has a status other than 200, or a body that does not decode
BadReply(r) == r.received /\ (r.status # StatusOK \/ ~r.body.valid)

\* C4: no step a loop takes in a tick whose reply has a status other than 200
\* or an undecodable body changes any entry of the sink.
C4_BadReplyLeavesSink ==
    [][ \A l \in started : (BadReply(reply'[l]) /\ StepOf(l)) => Sink' = Sink ]_vars

C4_Witness ==
    \E l \in GaugeLoops \cap started :
        /\ pc[l] = "wait"
        /\ BadReply(reply[l])
        /\ err[l] \in {"unexpected status code", "error decoding response"}
        /\ Gauge(l) # <<>>

\* ---------------------------------------------------------------------
MissingCredentials == env["NGENIX_USERNAME"] = "" \/ env["NGENIX_PASSWORD"] = ""

MissingConfigID == env["NGENIX_CONFIG_ID"] = ""

ConfigurationErrors ==
    {"missing basic auth credentials", "missing config id", "error executing request"}

\* the tick (if any) returned an error and no request went out
NothingSent(l) ==
    /\ pc[l] = "wait"
    /\ reply[l] = NoResponse(l)
    /\ err[l] \in ConfigurationErrors \cup {NotFetched}

\* C5 as claimed: in every fetch function, with any of the three variables
\* unset or empty, the tick returns an error and no request goes out.
C5_AnyMissingSendsNothing ==
    (MissingCredentials \/ MissingConfigID) => \A l \in started : NothingSent(l)

\* the fetch functions that read NGENIX_CONFIG_ID
ReadsConfigID == {Report, ByCode, ByPath}

\* C5 amended: with the user name or the password unset, no fetch function
\* sends a request; with NGENIX_CONFIG_ID unset, fetchData, fetchDataHTTPStatus
\* and the fetchDataTOP100 that reads it send none and return an error. (The
\* earlier fetchDataTOP100 and fetchDataHTTPSTATUS have the URL hard-coded.)
C5_RequiredMissingSendsNothing ==
    \A l \in started :
        (MissingCredentials \/ (MissingConfigID /\ l \in ReadsConfigID)) => NothingSent(l)

C5_Witness ==
    /\ ByCode \in started
    /\ ~MissingCredentials /\ MissingConfigID
    /\ err[ByCode] = "error executing request"
    /\ NothingSent(ByCode)

\* ---------------------------------------------------------------------
Present(l, category) ==
    /\ <<category.name>> \in DOMAIN Gauge(l)
    /\ Gauge(l)[<<category.name>>] = category.realtimeRequests

\* C6 as claimed: after a tick of a gauge loop that fetched and decoded, every
\* (name, realtimeRequests) pair of the categories list is in the gauge.
C6_EveryPairPresent ==
    \A l \in GaugeLoops \cap started :
        TickSucceeded(l) =>
            \A i \in 1..Len(Records(l)) : Present(l, Records(l)[i])

\* a later record of the list overwrites record i
Overwritten(l, i) ==
    \E j \in (i + 1)..Len(Records(l)) :
        /\ Records(l)[j].name = Records(l)[i].name
        /\ Records(l)[j].realtimeRequests # 0

\* C6 amended: after a tick of a gauge loop that fetched and decoded a response
\* with a non-empty modelName and a non-null categories list, every pair with a
\* non-empty name and a non-zero value that no later such record of the same
\* name follows is in the gauge with exactly that value.
C6_LastMappedPairPresent ==
    \A l \in GaugeLoops \cap started :
        (TickSucceeded(l) /\ ~Incomplete(l, decoded[l])) =>
            \A i \in 1..Len(Records(l)) :
                (~Skippable(l, Records(l)[i]) /\ ~Overwritten(l, i))
                => Present(l, Records(l)[i])

C6_Witness ==
    /\ ByCode \in started
    /\ TickSucceeded(ByCode) /\ ~Incomplete(ByCode, decoded[ByCode])
    /\ Records(ByCode) = <<Category("200", 5), Category("200", 42)>>
    /\ realtimeRequestsByCode[<<"200">>] = 42

\* ---------------------------------------------------------------------
\* C7: whatever the upstream answers, fetchReport abandons at most the current
\* tick: the process never ends.
C7_ProcessSurvives == ~crashed

Vectors == <<trafficCounter, realtimeRequestsByCode, realtimeRequestsByPath, totalRealtimeRequests>>

\* loop l maps in this step a record whose label values are k
Writes(l, k) == AtRecord(l) /\ StepOf(l) /\ <<LabelOf(l, Records(l)[idx[l]])>> = k

\* C9: no step removes a label combination from a vector, and an entry keeps
\* its value until a loop maps a record for that very combination.
C9_EntriesRetained ==
    [][ \A v \in 1..Len(Vectors) : \A k \in DOMAIN Vectors[v] :
          /\ k \in DOMAIN Vectors'[v]
          /\ Vectors'[v][k] # Vectors[v][k] => \E l \in started : Writes(l, k) ]_vars

C9_Witness ==
    /\ ByPath \in started
    /\ pc[ByPath] = "wait"
    /\ <<"/index">> \in DOMAIN realtimeRequestsByPath
    /\ \/ err[ByPath] # NoError
       \/ /\ ~Incomplete(ByPath, decoded[ByPath])
          /\ \E i \in 1..Len(Records(ByPath)) : ~Skippable(ByPath, Records(ByPath)[i])
          /\ \A i \in 1..Len(Records(ByPath)) : Records(ByPath)[i].name # "/index"

\* ---------------------------------------------------------------------
\* C10: a loop takes a tick from its ticker, and so starts a tick body, only
\* when its previous body has ended; a tick that fires meanwhile waits.
C10_NoOverlap ==
    [][ \A l \in started :
          /\ (tickC[l] /\ ~tickC'[l]) => pc[l] = "wait"
          /\ (pc'[l] = "http" /\ pc[l] # "http") => pc[l] = "wait"
          /\ (pc'[l] = "process" /\ pc[l] # "process") => pc[l] = "http" ]_vars

\* the ticker fired again while the HTTP call of one loop is still out, and
\* another loop is in the middle of its own tick
C10_Witness ==
    /\ started = {ByPathOld, ByCodeOld}
    /\ pc[ByPathOld] = "http" /\ tickC[ByPathOld]
    /\ pc[ByCodeOld] = "process"

\* ---------------------------------------------------------------------
\* the WithLabelValues calls one iteration of loop l makes for record rec, each
\* as the label names of the vector and the label values passed
CallsAt(l, rec) ==
    IF l = Report
    THEN {<<trafficCounterLabels, processReportLabelValues(rec)>>}
    ELSE IF Skippable(l, rec) THEN {}
    ELSE {<<IF l \in CodeLoops THEN realtimeRequestsByCodeLabels
                              ELSE realtimeRequestsByPathLabels,
            categoryLabelValues(rec)>>}
         \cup (IF l = ByPathOld
               THEN {<<totalRealtimeRequestsLabels, categoryLabelValues(rec)>>}
               ELSE {})

\* C11: label arity. Whenever a poll loop is about to map a record, every
\* WithLabelValues call of that iteration passes as many label values as the
\* vector has label names, so that no call panics on label cardinality.
C11_LabelArityRespected ==
    \A l \in started :
        AtRecord(l) =>
            \A call \in CallsAt(l, Records(l)[idx[l]]) :
                /\ Len(call[2]) = Len(call[1])
                /\ ~WithLabelValues(call[1], <<>>, call[2], 0).panic

====
